---- MODULE Spec2Model ----
(***************************************************************************)
(* lookfor: a recursive directory search (src/main.rs).                    *)
(*                                                                         *)
(* The program parses its arguments, compiles the --name pattern when      *)
(* --regex is given, builds a walkdir::WalkDir over the root with          *)
(* follow_links(false) and the optional max_depth, and runs every entry    *)
(* the walker yields without error through four filters, printing the      *)
(* path of each entry that passes all of them.                             *)
(*                                                                         *)
(* File names and patterns are sequences of one-character strings.  A    *)
(* file name may hold a byte that is not valid UTF-8 (Invalid); a pattern  *)
(* is a Rust String and cannot, but it may hold U+FFFD (Replacement).      *)
(***************************************************************************)
EXTENDS Integers, Sequences, FiniteSets, TLC

VARIABLES
    args,        \* the parsed command line (struct Args)
    fs,          \* the filesystem snapshot: node -> its attributes
    pc,          \* "compile", "walk", "exited"
    exit_code,   \* the process's exit status once pc = "exited"
    name_regex,  \* Option<Regex>
    start,       \* the walker has not yet taken its root
    stack_list,  \* the walker's stack of open directory listings
    stdout,      \* the printed paths, as nodes, in order
    stderr,      \* the diagnostics written
    opened,      \* the directories read_dir was called on
    yielded,     \* the entries the loop body has run on, in order
    errors,      \* the Err items filter_map dropped, in order
    verdict      \* node -> how the loop body left it

vars == <<args, fs, pc, exit_code, name_regex, start, stack_list,
          stdout, stderr, opened, yielded, errors, verdict>>

----------------------------------------------------------------------------
(* Bounds of the model.                                                    *)

\* nodes below the root in the filesystem snapshot
MaxNodes == 4
\* longest file name of the name-matching slice
MaxNameLen == 3
\* longest --name text of the name-matching slice
MaxPatLen == 2
\* largest --max-depth value tried
MaxDepthArg == 2

----------------------------------------------------------------------------
(* Option<T>, Result<T, E>                                                 *)

None == [some |-> FALSE, val |-> <<>>]
Some(v) == [some |-> TRUE, val |-> v]

----------------------------------------------------------------------------
(* Strings                                                                 *)

\* a byte of an OsStr that is not part of any valid UTF-8 sequence
Invalid == "\\xFF"
\* U+FFFD REPLACEMENT CHARACTER
Replacement == "\\u{FFFD}"

\* OsStr::to_str: None when the name is not valid Unicode
to_str(os) ==
    IF \E i \in DOMAIN os : os[i] = Invalid THEN None ELSE Some(os)

\* OsStr::to_string_lossy: invalid sequences become U+FFFD
to_string_lossy(os) ==
    [i \in DOMAIN os |-> IF os[i] = Invalid THEN Replacement ELSE os[i]]

\* str::starts_with(char)
starts_with(s, c) == Len(s) > 0 /\ s[1] = c

\* str::contains(&String): a contiguous, case-sensitive occurrence
contains(s, pat) ==
    \E i \in 0..(Len(s) - Len(pat)) : SubSeq(s, i + 1, i + Len(pat)) = pat

\* u8::to_ascii_lowercase
to_ascii_lowercase(c) ==
    CASE c = "A" -> "a"
      [] c = "T" -> "t"
      [] OTHER -> c

\* eq_ignore_ascii_case as a plain comparison
eq_exact(a, b) == a = b

\* str::eq_ignore_ascii_case
eq_ignore_ascii_case(a, b) ==
    /\ Len(a) = Len(b)
    /\ \A i \in DOMAIN a : to_ascii_lowercase(a[i]) = to_ascii_lowercase(b[i])

----------------------------------------------------------------------------
(* Paths.  The root path is given as one component: ".", ".." or a name.   *)

CurDir == <<".">>
ParentDir == <<".", ".">>

\* Path::file_name: the final component when it is a normal one
path_file_name(p) == IF p = CurDir \/ p = ParentDir THEN None ELSE Some(p)

\* index of the last "." of a name, 0 when there is none
LastDot(s) ==
    IF \E i \in DOMAIN s : s[i] = "."
    THEN CHOOSE i \in DOMAIN s : s[i] = "." /\ \A j \in DOMAIN s : s[j] = "." => j <= i
    ELSE 0

\* Path::extension: the part of file_name after its last ".", None when
\* there is no file_name, no "." or the only "." opens the name
extension(p) ==
    LET f == path_file_name(p) IN
    IF ~f.some THEN None
    ELSE IF LastDot(f.val) <= 1 THEN None
    ELSE Some(SubSeq(f.val, LastDot(f.val) + 1, Len(f.val)))

----------------------------------------------------------------------------
(* regex::Regex, for patterns made of literals, ".", "^" and "[".          *)

\* Regex::new: an unclosed character class is a parse error
RegexNew(pattern) ==
    IF \E i \in DOMAIN pattern : pattern[i] = "[" THEN None ELSE Some(pattern)

RECURSIVE MatchFrom(_, _, _, _)
\* tokens k.. of re match hay starting after pos characters
MatchFrom(re, k, hay, pos) ==
    IF k > Len(re) THEN TRUE
    ELSE IF re[k] = "^" THEN pos = 0 /\ MatchFrom(re, k + 1, hay, pos)
    ELSE /\ pos < Len(hay)
         /\ (re[k] = "." \/ re[k] = hay[pos + 1])
         /\ MatchFrom(re, k + 1, hay, pos + 1)

\* Regex::is_match: a match anywhere in the haystack
is_match(re, hay) == \E pos \in 0..Len(hay) : MatchFrom(re, 1, hay, pos)

----------------------------------------------------------------------------
(* The filesystem.  Node 0 is the root; nodes 1..MaxNodes hang below it:   *)
(* 1 and 2 in the root, 3 in 1, and every later node in its predecessor.   *)

Nodes == 0..MaxNodes

Parent(n) == IF n <= 2 THEN 0 ELSE IF n = 3 THEN 1 ELSE n - 1

RECURSIVE Depth(_)
Depth(n) == IF n = 0 THEN 0 ELSE 1 + Depth(Parent(n))

RECURSIVE Ancestors(_)
\* the proper ancestors of a node
Ancestors(n) == IF n = 0 THEN {} ELSE {Parent(n)} \cup Ancestors(Parent(n))

\* kind: what symlink_metadata reports; target: what metadata reports
\* through a symlink ("none": dangling); stat_ok: the entry itself can be
\* read; list_ok: read_dir on it succeeds
Node(name, kind, target, stat_ok, list_ok) ==
    [present |-> TRUE, name |-> name, kind |-> kind, target |-> target,
     stat_ok |-> stat_ok, list_ok |-> list_ok]

Absent ==
    [present |-> FALSE, name |-> <<>>, kind |-> "file", target |-> "file",
     stat_ok |-> FALSE, list_ok |-> FALSE]

File(name) == Node(name, "file", "file", TRUE, FALSE)
Dir(name) == Node(name, "dir", "dir", TRUE, TRUE)
\* a directory that cannot be opened (permission denied)
Locked(name) == Node(name, "dir", "dir", TRUE, FALSE)
\* an entry that vanished between the listing and its stat
Gone(name) == Node(name, "file", "file", FALSE, FALSE)
\* a symlink to a directory
Link(name) == Node(name, "symlink", "dir", TRUE, TRUE)
\* a symlink whose target does not exist
Dangling(name) == Node(name, "symlink", "none", TRUE, FALSE)
\* a fifo, socket or device
Other(name) == Node(name, "other", "other", TRUE, FALSE)

\* the node holds entries of its own: it is a directory, or a link to one
IsContainer(r) ==
    /\ r.present /\ r.stat_ok /\ r.list_ok
    /\ (r.kind = "dir" \/ (r.kind = "symlink" /\ r.target = "dir"))

\* the entries read_dir lists in directory d
Children(d) == {n \in Nodes \ {0} : Parent(n) = d /\ fs[n].present}

----------------------------------------------------------------------------
(* The loop body: the four filters, in the order of the code.              *)

\* DirEntry::file_name: the path's file name, or the whole path when it
\* has none (a root of "." or "..")
file_name(entry) ==
    LET p == fs[entry.node].name
        f == path_file_name(p)
    IN  IF f.some THEN f.val ELSE p

\* DirEntry::path
path(entry) == fs[entry.node].name

\* DirEntry::file_type: symlinks are not followed
file_type(entry) == fs[entry.node].kind

is_hidden(entry) ==
    LET s == to_str(file_name(entry))
    IN  IF s.some THEN starts_with(s.val, ".") ELSE FALSE

\* if !args.hidden && is_hidden(&entry) { continue; }
hidden_skip(entry) == ~args.hidden /\ is_hidden(entry)

\* type_match taking whatever is not a directory for a file
type_match_loose(entry) ==
    CASE args.type = "file" -> file_type(entry) # "dir"
      [] args.type = "dir" -> file_type(entry) = "dir"
      [] args.type = "any" -> TRUE

type_match(entry) ==
    CASE args.type = "file" -> file_type(entry) = "file"
      [] args.type = "dir" -> file_type(entry) = "dir"
      [] args.type = "any" -> TRUE

\* if !match args.r#type { .. } { continue; }
type_skip(entry) == ~type_match(entry)

\* matched forgetting the compiled pattern
matched_literal(entry) ==
    contains(to_string_lossy(file_name(entry)), args.name.val)

matched(entry) ==
    LET name == to_string_lossy(file_name(entry))
    IN  IF name_regex.some THEN is_match(name_regex.val, name)
        ELSE contains(name, args.name.val)

\* if let Some(pattern) = &args.name { .. if !matched { continue; } }
name_skip(entry) == args.name.some /\ ~matched(entry)

ext_matches(entry) ==
    LET e == extension(path(entry))
        u == IF e.some THEN to_str(e.val) ELSE None
    IN  IF u.some THEN eq_ignore_ascii_case(u.val, args.ext.val) ELSE FALSE

\* if let Some(ext_filter) = &args.ext { .. if !ext_matches { continue; } }
ext_skip(entry) == args.ext.some /\ ~ext_matches(entry)

\* LoopBody without its extension filter
LoopBody_noext(entry) ==
    IF hidden_skip(entry) THEN "hidden"
    ELSE IF type_skip(entry) THEN "type"
    ELSE IF name_skip(entry) THEN "name"
    ELSE "printed"

\* which continue the entry leaves the body by, or "printed"
LoopBody(entry) ==
    IF hidden_skip(entry) THEN "hidden"
    ELSE IF type_skip(entry) THEN "type"
    ELSE IF name_skip(entry) THEN "name"
    ELSE IF ext_skip(entry) THEN "ext"
    ELSE "printed"

\* one turn of the for loop on an entry the walker yielded
Emit(entry) ==
    /\ yielded' = Append(yielded, entry)
    /\ verdict' = [verdict EXCEPT ![entry.node] = LoopBody(entry)]
    /\ stdout' = IF LoopBody(entry) = "printed"
                 THEN Append(stdout, entry.node) ELSE stdout

\* Drop printing the path the error names
Drop_printing(node, op) ==
    /\ errors' = Append(errors, [node |-> node, op |-> op])
    /\ stdout' = Append(stdout, node)
    /\ UNCHANGED <<yielded, verdict>>

\* filter_map(|e| e.ok()) on an Err item
Drop(node, op) ==
    /\ errors' = Append(errors, [node |-> node, op |-> op])
    /\ UNCHANGED <<yielded, verdict, stdout>>

----------------------------------------------------------------------------
(* walkdir::IntoIter with follow_links(false)                              *)

\* IntoIter::push: read_dir is called and its result, the listing or the
\* error, goes on the stack
Push(stack, d) ==
    Append(stack, [dir |-> d,
                   rest |-> IF fs[d].list_ok THEN Children(d) ELSE {},
                   err |-> ~fs[d].list_ok])

Pop(stack) == SubSeq(stack, 1, Len(stack) - 1)

\* BeyondDepth one level late
BeyondDepth_lax ==
    args.max_depth.some /\ Len(stack_list) > args.max_depth.val + 1

\* BeyondDepth of a walker that was given no max_depth
BeyondDepth_never == FALSE

\* self.depth > self.opts.max_depth
BeyondDepth ==
    args.max_depth.some /\ Len(stack_list) > args.max_depth.val

Top == stack_list[Len(stack_list)]

\* Descends of a walker that skips hidden directories with their contents
Descends_pruning(n) ==
    /\ fs[n].kind = "dir"
    /\ args.hidden \/ ~starts_with(fs[n].name, ".")

\* IntoIter::handle_entry descends into the entry: a directory, or the
\* root when it is a symlink to a directory
Descends(n) ==
    \/ fs[n].kind = "dir"
    \/ n = 0 /\ fs[n].kind = "symlink" /\ fs[n].target = "dir"

----------------------------------------------------------------------------
(* main                                                                    *)

\* Compile putting off the pattern's errors: a pattern that does not
\* compile is taken as text
Compile_lazy ==
    /\ pc = "compile"
    /\ name_regex' = IF args.regex /\ args.name.some
                        /\ RegexNew(args.name.val).some
                     THEN RegexNew(args.name.val) ELSE None
    /\ start' = TRUE
    /\ pc' = "walk"
    /\ UNCHANGED <<args, fs, exit_code, stack_list, stdout, stderr, opened,
                   yielded, errors, verdict>>

\* Regex::new succeeds, or no regex was asked for; the walker is built
Compile ==
    /\ pc = "compile"
    /\ \/ ~args.regex
       \/ ~args.name.some
       \/ RegexNew(args.name.val).some
    /\ name_regex' = IF args.regex /\ args.name.some
                     THEN RegexNew(args.name.val) ELSE None
    /\ start' = TRUE
    /\ pc' = "walk"
    /\ UNCHANGED <<args, fs, exit_code, stack_list, stdout, stderr, opened,
                   yielded, errors, verdict>>

\* Regex::new fails: eprintln! and std::process::exit(1)
InvalidRegex ==
    /\ pc = "compile"
    /\ args.regex /\ args.name.some
    /\ ~RegexNew(args.name.val).some
    /\ stderr' = Append(stderr, [invalid_regex |-> args.name.val])
    /\ exit_code' = 1
    /\ pc' = "exited"
    /\ UNCHANGED <<args, fs, name_regex, start, stack_list, stdout, opened,
                   yielded, errors, verdict>>

\* the walker's first item: the root itself, at depth 0
NextRoot ==
    /\ pc = "walk" /\ start
    /\ start' = FALSE
    /\ IF ~fs[0].stat_ok
       THEN /\ Drop(0, "symlink_metadata")
            /\ UNCHANGED <<stack_list, opened>>
       ELSE IF fs[0].kind = "symlink" /\ fs[0].target = "none"
       THEN /\ Drop(0, "metadata")
            /\ UNCHANGED <<stack_list, opened>>
       ELSE /\ stack_list' = IF Descends(0) THEN Push(stack_list, 0)
                             ELSE stack_list
            /\ opened' = IF Descends(0) THEN opened \cup {0} ELSE opened
            /\ Emit([node |-> 0, depth |-> 0])
            /\ UNCHANGED errors
    /\ UNCHANGED <<args, fs, pc, exit_code, name_regex, stderr>>

\* the listing on top of the stack lies beyond max_depth: it is popped
\* without being read
PopBeyondDepth ==
    /\ pc = "walk" /\ ~start
    /\ stack_list # <<>>
    /\ BeyondDepth
    /\ stack_list' = Pop(stack_list)
    /\ UNCHANGED <<args, fs, pc, exit_code, name_regex, start, stdout, stderr,
                   opened, yielded, errors, verdict>>

\* read_dir had failed on the directory on top: its error is the next item
NextError ==
    /\ pc = "walk" /\ ~start
    /\ stack_list # <<>>
    /\ ~BeyondDepth
    /\ Top.err
    /\ stack_list' = [stack_list EXCEPT ![Len(stack_list)].err = FALSE]
    /\ Drop(Top.dir, "read_dir")
    /\ UNCHANGED <<args, fs, pc, exit_code, name_regex, start, stderr, opened>>

\* the next entry of the directory on top, in whatever order read_dir
\* lists them
NextEntry ==
    /\ pc = "walk" /\ ~start
    /\ stack_list # <<>>
    /\ ~BeyondDepth
    /\ ~Top.err
    /\ \E c \in Top.rest :
          LET taken == [stack_list EXCEPT ![Len(stack_list)].rest = @ \ {c}]
          IN  IF ~fs[c].stat_ok
              THEN /\ stack_list' = taken
                   /\ Drop(c, "stat")
                   /\ UNCHANGED opened
              ELSE /\ stack_list' = IF Descends(c) THEN Push(taken, c)
                                    ELSE taken
                   /\ opened' = IF Descends(c) THEN opened \cup {c} ELSE opened
                   /\ Emit([node |-> c, depth |-> Len(stack_list)])
                   /\ UNCHANGED errors
    /\ UNCHANGED <<args, fs, pc, exit_code, name_regex, start, stderr>>

\* the directory on top has no entry left
PopExhausted ==
    /\ pc = "walk" /\ ~start
    /\ stack_list # <<>>
    /\ ~BeyondDepth
    /\ ~Top.err
    /\ Top.rest = {}
    /\ stack_list' = Pop(stack_list)
    /\ UNCHANGED <<args, fs, pc, exit_code, name_regex, start, stdout, stderr,
                   opened, yielded, errors, verdict>>

\* the walker is exhausted: main returns
Finish ==
    /\ pc = "walk" /\ ~start
    /\ stack_list = <<>>
    /\ exit_code' = 0
    /\ pc' = "exited"
    /\ UNCHANGED <<args, fs, name_regex, start, stack_list, stdout, stderr,
                   opened, yielded, errors, verdict>>

Next ==
    \/ Compile
    \/ InvalidRegex
    \/ NextRoot
    \/ PopBeyondDepth
    \/ NextError
    \/ NextEntry
    \/ PopExhausted
    \/ Finish

----------------------------------------------------------------------------
(* The runs checked: command lines and filesystem snapshots.               *)

Seqs(S, n) == UNION {[1..k -> S] : k \in 0..n}

NameChars == {".", "t", "T", Invalid}
PatChars == {".", "t", "^", "[", Replacement}

\* the names read_dir can list: not empty, not "." and not ".."
Names == Seqs(NameChars, MaxNameLen) \ {<<>>, CurDir, ParentDir}

NameArgs == {None} \cup {Some(p) : p \in Seqs(PatChars, MaxPatLen)}
ExtArgs == {None} \cup {Some(e) : e \in Seqs({"t", "T"}, 1)}
DepthArgs == {None} \cup {Some(d) : d \in 0..MaxDepthArg}
Types == {"file", "dir", "any"}

Args(name, regex, ext, max_depth, hidden, type) ==
    [name |-> name, regex |-> regex, ext |-> ext, max_depth |-> max_depth,
     hidden |-> hidden, type |-> type]

\* the rest of the state as main starts
Fresh ==
    /\ pc = "compile"
    /\ exit_code = -1
    /\ name_regex = None
    /\ start = FALSE
    /\ stack_list = <<>>
    /\ stdout = <<>>
    /\ stderr = <<>>
    /\ opened = {}
    /\ yielded = <<>>
    /\ errors = <<>>
    /\ verdict = [n \in Nodes |-> "unseen"]

WalkRoots ==
    {Dir(CurDir), Dir(<<"t">>), Link(<<"t">>), Locked(<<"t">>),
     Gone(<<"t">>), File(<<"t">>), Dangling(<<"t">>)}

\* two entries of one directory differ in name
NameOf(n) == IF n = 2 THEN <<"T">> ELSE <<"t">>

RECURSIVE TreesTo(_, _, _)
\* the snapshots of nodes 0..k: the root is one of roots, node n one of
\* shapes[n] or absent, and only a container has nodes below it; what a
\* symlink below the root leads to is a file or nothing
TreesTo(k, roots, shapes) ==
    IF k = 0 THEN {[n \in {0} |-> r] : r \in roots}
    ELSE UNION {
           {[n \in 0..k |-> IF n = k THEN s ELSE f[n]] :
               s \in IF ~IsContainer(f[Parent(k)]) THEN {Absent}
                     ELSE IF Parent(k) # 0 /\ f[Parent(k)].kind = "symlink"
                     THEN {File(NameOf(k)), Absent}
                     ELSE shapes[k] \cup {Absent}} :
           f \in TreesTo(k - 1, roots, shapes)}

Trees(roots, shapes) == TreesTo(MaxNodes, roots, shapes)

\* node 2, which has nothing below it, is no hidden directory and no link
WalkShapes ==
    [n \in Nodes |->
        {File(NameOf(n)), Dir(NameOf(n)), Locked(NameOf(n)), Gone(NameOf(n))}
        \cup IF n = 2 THEN {}
             ELSE {Dir(<<".">> \o NameOf(n)), Link(NameOf(n))}]

\* trees of every shape, walked under every depth bound
InitWalk ==
    /\ fs \in Trees(WalkRoots, WalkShapes)
    /\ args \in {Args(None, FALSE, None, d, h, "any") :
                    d \in DepthArgs, h \in BOOLEAN}

TypeShapes ==
    [n \in Nodes |-> {File(NameOf(n)), Dir(NameOf(n)), Link(NameOf(n)),
                      Other(NameOf(n))}]

\* trees of entries of every type, under every --type
InitType ==
    /\ fs \in Trees({Dir(<<"t">>), Link(<<"t">>), File(<<"t">>)}, TypeShapes)
    /\ args \in {Args(None, FALSE, None, None, TRUE, t) : t \in Types}

\* the names one character short of the longest
ShortNames == {nm \in Names : Len(nm) < MaxNameLen}

\* a root holding one entry, of each of the names and types
MatchTrees(names, kinds) ==
    {[n \in Nodes |-> IF n = 0 THEN Dir(<<"t">>)
                      ELSE IF n = 1
                      THEN Node(nm, k, IF k = "symlink" THEN "file" ELSE k,
                                TRUE, k = "dir")
                      ELSE Absent] : nm \in names, k \in kinds}

\* every --name text against every name, with and without --regex; every
\* --ext text against every name; every --type against every type; and
\* all the filters at once
InitMatch ==
    \/ /\ fs \in MatchTrees(ShortNames, {"file"})
       /\ args \in {Args(nm, r, None, None, TRUE, "any") :
                       nm \in NameArgs, r \in BOOLEAN}
    \/ /\ fs \in MatchTrees(Names, {"file", "dir"})
       /\ args \in {Args(None, r, e, None, h, "any") :
                       r \in BOOLEAN, e \in ExtArgs, h \in BOOLEAN}
    \/ /\ fs \in MatchTrees(Names, {"file", "dir", "symlink", "other"})
       /\ args \in {Args(None, FALSE, None, None, h, t) :
                       h \in BOOLEAN, t \in Types}
    \/ /\ fs \in MatchTrees(Names, {"file"})
       /\ args \in {Args(Some(<<"t">>), r, Some(<<"t">>), Some(1), h, t) :
                       r \in BOOLEAN, h \in BOOLEAN, t \in Types}

Init == Fresh /\ (InitWalk \/ InitType \/ InitMatch)

Spec == Init /\ [][Next]_vars

----------------------------------------------------------------------------
(* What the claims speak of, said of the filesystem and the command line  *)
(* alone.                                                                  *)

Printed == {stdout[i] : i \in DOMAIN stdout}
Yielded == {yielded[i].node : i \in DOMAIN yielded}

NoDuplicates(s) == \A i, j \in DOMAIN s : i # j => s[i] # s[j]

\* the base name of a node's path, as the bytes the filesystem holds
BaseName(n) == fs[n].name

StartsWithDot(n) == Len(BaseName(n)) > 0 /\ BaseName(n)[1] = "."

Completed == pc = "exited" /\ exit_code = 0

WithinBound(n) == args.max_depth.some => Depth(n) <= args.max_depth.val

RECURSIVE Visible(_)
\* the node can be read and lies within the depth bound below directories
\* that can all be listed; the walk goes through no symlink but the root
Visible(n) ==
    /\ fs[n].present /\ fs[n].stat_ok
    /\ WithinBound(n)
    /\ IF n = 0 THEN ~(fs[0].kind = "symlink" /\ fs[0].target = "none")
       ELSE LET d == Parent(n)
            IN  /\ Visible(d)
                /\ fs[d].list_ok
                /\ \/ fs[d].kind = "dir"
                   \/ d = 0 /\ fs[d].kind = "symlink" /\ fs[d].target = "dir"

\* t occurs in s as a contiguous run of equal characters
Occurs(t, s) ==
    \E i \in 1..(Len(s) + 1) :
        \A j \in 1..Len(t) : i + j - 1 <= Len(s) /\ s[i + j - 1] = t[j]

\* the name as a Rust String: U+FFFD stands for each invalid byte
Lossy(s) == [i \in DOMAIN s |-> IF s[i] = Invalid THEN Replacement ELSE s[i]]

\* the extension of a base name: the text after its last ".", unless the
\* name has no "." or its only "." is its first character
Dots(s) == {i \in DOMAIN s : s[i] = "."}
HasExtension(s) == Dots(s) # {} /\ Dots(s) # {1}
ExtensionOf(s) ==
    LET last == CHOOSE i \in Dots(s) : \A j \in Dots(s) : j <= i
    IN  [k \in 1..(Len(s) - last) |-> s[last + k]]

Fold(c) == IF c = "T" THEN "t" ELSE IF c = "A" THEN "a" ELSE c
SameIgnoringCase(a, b) ==
    Len(a) = Len(b) /\ \A i \in DOMAIN a : Fold(a[i]) = Fold(b[i])

\* the entry the walker makes of a visible node
EntryOf(n) == [node |-> n, depth |-> Depth(n)]

\* the loop body reached the name filter, the extension filter
ReachedName(n) == verdict[n] \in {"name", "ext", "printed"}
ReachedExt(n) == verdict[n] \in {"ext", "printed"}

----------------------------------------------------------------------------
(* C1 *)

\* C1: with --hidden not given, no entry whose base name starts with "."
\* is ever printed, whatever the root, the tree and the other filters.
C1_HiddenNeverPrinted ==
    ~args.hidden => \A n \in Printed : ~StartsWithDot(n)

----------------------------------------------------------------------------
(* C2 *)

\* the root holds a subdirectory that holds a file
HasSubdirWithFiles ==
    \E d \in Children(0) :
        /\ fs[d].kind = "dir"
        /\ \E c \in Children(d) : fs[c].kind = "file"

DepthOne == args.max_depth = Some(1) /\ HasSubdirWithFiles

\* C2 as stated: with --max-depth 1 every printed path is an immediate
\* child of the root, and the root entry itself is not printed.
C2_OnlyChildrenPrinted ==
    DepthOne => \A n \in Printed : n # 0 /\ Parent(n) = 0

\* C2 amended: with --max-depth 1 every printed path is the root entry
\* itself or an immediate child of the root; nothing inside the
\* subdirectory is printed even when it would match the other filters.
C2_RootAndChildrenPrinted ==
    DepthOne => \A n \in Printed : n = 0 \/ (n # 0 /\ Parent(n) = 0)

\* a completed --max-depth 1 run that printed the root and a child of it
\* and left out a file of the subdirectory that passes every filter
C2_Witness ==
    /\ DepthOne /\ Completed
    /\ 0 \in Printed
    /\ \E n \in Printed : n # 0
    /\ \E n \in Nodes : /\ Depth(n) = 2 /\ fs[n].kind = "file"
                        /\ LoopBody(EntryOf(n)) = "printed"
                        /\ n \notin Printed

----------------------------------------------------------------------------
(* C3 *)

\* no printed entry lies deeper than the bound
PrintedWithinBound == \A n \in Printed : WithinBound(n)

\* C3 as stated: under --max-depth D no printed entry lies deeper than D,
\* no directory at depth D or deeper is ever opened for listing, and no
\* read error comes from beyond the bound.
C3_NothingOpenedAtBound ==
    args.max_depth.some =>
        /\ PrintedWithinBound
        /\ \A d \in opened : Depth(d) < args.max_depth.val
        /\ \A i \in DOMAIN errors : Depth(errors[i].node) <= args.max_depth.val

\* C3 amended: under --max-depth D no printed or visited entry lies deeper
\* than D, no directory deeper than D is ever opened, and a directory at
\* depth D is opened but never read: no entry and no read error comes out
\* of a directory at depth D or deeper.
C3_NothingReadAtBound ==
    args.max_depth.some =>
        /\ PrintedWithinBound
        /\ \A i \in DOMAIN yielded :
              /\ yielded[i].depth = Depth(yielded[i].node)
              /\ WithinBound(yielded[i].node)
        /\ \A d \in opened : Depth(d) <= args.max_depth.val
        /\ \A i \in DOMAIN errors :
              /\ WithinBound(errors[i].node)
              /\ errors[i].op = "read_dir" =>
                    Depth(errors[i].node) < args.max_depth.val

\* a completed run under a bound that met a directory it cannot open at
\* the bound, opened it, and reported no error
C3_Witness ==
    /\ Completed /\ args.max_depth.some
    /\ \E d \in opened : /\ Depth(d) = args.max_depth.val
                         /\ ~fs[d].list_ok
    /\ \E n \in Nodes : fs[n].present /\ ~WithinBound(n)
    /\ errors = <<>>
    /\ stdout # <<>>

----------------------------------------------------------------------------
(* C4 *)

\* what the type filter lets through
TypeFilterSound ==
    /\ args.type = "file" => \A n \in Printed : fs[n].kind = "file"
    /\ args.type = "dir" => \A n \in Printed : fs[n].kind = "dir"
    /\ args.type # "any" => \A n \in Printed : fs[n].kind # "symlink"
    /\ args.type = "any" => \A n \in Nodes : verdict[n] # "type"

\* C4 as stated: a printed entry is a regular file under "file" and a
\* directory under "dir"; "any" rejects nothing; and a symlink is never
\* followed: nothing is visited through one.
C4_SymlinkNeverFollowed ==
    /\ TypeFilterSound
    /\ \A n \in Yielded : \A a \in Ancestors(n) : fs[a].kind # "symlink"

\* C4 amended: a printed entry is a regular file under "file" and a
\* directory under "dir"; a symlink is neither and is printed under
\* neither; "any" rejects nothing; and no symlink is followed except the
\* root path itself, whose target directory is walked.
C4_OnlyRootSymlinkFollowed ==
    /\ TypeFilterSound
    /\ \A n \in Yielded :
          \A a \in Ancestors(n) : fs[a].kind = "symlink" => a = 0

\* a completed --type dir run that printed a directory and met, below the
\* root, a symlink to a directory that holds entries: it did not print the
\* symlink and visited nothing through it
C4_Witness ==
    /\ Completed /\ args.type = "dir"
    /\ \E n \in Printed : fs[n].kind = "dir"
    /\ \E n \in Yielded : /\ n # 0 /\ fs[n].kind = "symlink"
                          /\ verdict[n] = "type"
                          /\ Children(n) # {}
                          /\ Children(n) \cap Yielded = {}

----------------------------------------------------------------------------
(* C5 *)

BadPattern == args.regex /\ args.name.some /\ ~RegexNew(args.name.val).some

\* C5: with --regex and a --name that fails to compile the run ends with
\* exit status 1 and a diagnostic on standard error before the traversal
\* begins: no directory is opened, nothing is printed; and a run fails
\* with status 1 only so, never in the middle of the walk.
C5_BadPatternFailsBeforeWalk ==
    /\ BadPattern =>
          /\ pc \in {"compile", "exited"}
          /\ pc = "exited" => exit_code = 1 /\ Len(stderr) = 1
                              /\ stderr[1].invalid_regex = args.name.val
          /\ ~start /\ stack_list = <<>> /\ opened = {}
          /\ yielded = <<>> /\ errors = <<>> /\ stdout = <<>>
    /\ (pc = "exited" /\ exit_code # 0) =>
          BadPattern /\ opened = {} /\ yielded = <<>> /\ errors = <<>>

\* the run has ended with status 1 on a bad pattern
C5_Witness ==
    BadPattern /\ pc = "exited" /\ exit_code = 1 /\ stderr # <<>>

----------------------------------------------------------------------------
(* C6 *)

\* C6 as stated: without --regex an entry passes the name filter iff its
\* base name contains the --name text; with --regex iff the pattern
\* matches somewhere in the base name; without --name every entry passes.
C6_NameModeOnBaseName ==
    \A n \in Nodes : ReachedName(n) =>
        ((verdict[n] # "name") <=>
            IF ~args.name.some THEN TRUE
            ELSE IF args.regex THEN is_match(args.name.val, BaseName(n))
            ELSE Occurs(args.name.val, BaseName(n)))

\* C6 amended: the same, of the base name read as text: each byte of it
\* that is not valid UTF-8 counts as the character U+FFFD.
C6_NameModeOnLossyName ==
    \A n \in Nodes : ReachedName(n) =>
        ((verdict[n] # "name") <=>
            IF ~args.name.some THEN TRUE
            ELSE IF args.regex
            THEN \E i \in 0..Len(BaseName(n)) :
                    MatchFrom(args.name.val, 1, Lossy(BaseName(n)), i)
            ELSE Occurs(args.name.val, Lossy(BaseName(n))))

\* a completed --regex run that printed an entry whose name does not
\* contain the pattern's text and rejected another by the name filter
C6_Witness ==
    /\ Completed /\ args.regex /\ args.name.some
    /\ \E n \in Nodes : /\ verdict[n] = "printed"
                        /\ ~Occurs(args.name.val, Lossy(BaseName(n)))
    /\ \E n \in Nodes : verdict[n] = "name"

----------------------------------------------------------------------------
(* C7 *)

\* C7: under --ext an entry passes the extension filter iff its base name
\* has an extension and that extension equals the --ext text, letter case
\* aside; an entry without extension passes for no --ext text.
C7_ExtensionFilter ==
    args.ext.some =>
        \A n \in Nodes : ReachedExt(n) =>
            ((verdict[n] = "printed") <=>
                /\ HasExtension(BaseName(n))
                /\ SameIgnoringCase(ExtensionOf(BaseName(n)), args.ext.val))

\* a completed --ext run that printed an entry whose extension differs
\* from the --ext text in letter case and rejected one with no extension
C7_Witness ==
    /\ Completed /\ args.ext.some
    /\ \E n \in Nodes : /\ verdict[n] = "printed"
                        /\ HasExtension(BaseName(n))
                        /\ ExtensionOf(BaseName(n)) # args.ext.val
    /\ \E n \in Nodes : verdict[n] = "ext" /\ ~HasExtension(BaseName(n))

----------------------------------------------------------------------------
(* C8 *)

\* the root cannot be read: it does not exist, or cannot be opened
RootUnreadable ==
    \/ ~fs[0].stat_ok
    \/ fs[0].kind = "symlink" /\ fs[0].target = "none"
    \/ fs[0].kind = "dir" /\ ~fs[0].list_ok

\* a walk is never stuck, fails on nothing but the pattern, writes no
\* diagnostic, repeats no read, and visits every visible node
WalkSurvivesErrors ==
    /\ pc = "walk" => ENABLED Next
    /\ (pc = "exited" /\ ~BadPattern) => exit_code = 0
    /\ ~BadPattern => stderr = <<>>
    /\ NoDuplicates(errors)
    /\ Completed => Yielded = {n \in Nodes : Visible(n)}

\* C8 as stated: a read error never aborts the run; the failing node is
\* not printed and leaves no diagnostic; every readable entry outside its
\* subtree is still visited; nothing is retried; the exit status is 0;
\* and nothing is printed when the root itself cannot be read.
C8_FailingNodeNotPrinted ==
    /\ WalkSurvivesErrors
    /\ \A i \in DOMAIN errors : errors[i].node \notin Printed
    /\ RootUnreadable => stdout = <<>>

\* C8 amended: the same, but only a node whose own metadata cannot be
\* read is left out: a directory that cannot be opened is itself visited,
\* filtered and printed like any entry and only what lies below it is
\* missing; nothing is printed when the root does not exist.
C8_UnreadableNodeNotPrinted ==
    /\ WalkSurvivesErrors
    /\ \A i \in DOMAIN errors :
          /\ errors[i].op # "read_dir" => errors[i].node \notin Yielded
          /\ errors[i].op = "read_dir" => errors[i].node \in Yielded
    /\ (~fs[0].stat_ok \/ (fs[0].kind = "symlink" /\ fs[0].target = "none"))
          => stdout = <<>> /\ yielded = <<>>

\* a completed run that dropped the error of an entry and the error of a
\* directory below the root, printed that directory and printed another
\* entry below the root as well
C8_Witness ==
    /\ Completed
    /\ \E i, j \in DOMAIN errors :
          /\ errors[i].op = "stat"
          /\ errors[j].op = "read_dir"
          /\ errors[j].node # 0 /\ errors[j].node \in Printed
    /\ \E n \in Printed : n # 0 /\ fs[n].list_ok

----------------------------------------------------------------------------
(* C9 *)

\* the 24 orders the four filters can be tried in
FilterOrders ==
    {<<"hidden", "type", "name", "ext">>, <<"hidden", "type", "ext", "name">>,
     <<"hidden", "name", "type", "ext">>, <<"hidden", "name", "ext", "type">>,
     <<"hidden", "ext", "type", "name">>, <<"hidden", "ext", "name", "type">>,
     <<"type", "hidden", "name", "ext">>, <<"type", "hidden", "ext", "name">>,
     <<"type", "name", "hidden", "ext">>, <<"type", "name", "ext", "hidden">>,
     <<"type", "ext", "hidden", "name">>, <<"type", "ext", "name", "hidden">>,
     <<"name", "hidden", "type", "ext">>, <<"name", "hidden", "ext", "type">>,
     <<"name", "type", "hidden", "ext">>, <<"name", "type", "ext", "hidden">>,
     <<"name", "ext", "hidden", "type">>, <<"name", "ext", "type", "hidden">>,
     <<"ext", "hidden", "type", "name">>, <<"ext", "hidden", "name", "type">>,
     <<"ext", "type", "hidden", "name">>, <<"ext", "type", "name", "hidden">>,
     <<"ext", "name", "hidden", "type">>, <<"ext", "name", "type", "hidden">>}

Rejects(f, entry) ==
    CASE f = "hidden" -> hidden_skip(entry)
      [] f = "type" -> type_skip(entry)
      [] f = "name" -> name_skip(entry)
      [] f = "ext" -> ext_skip(entry)

\* every filter accepts the node
AcceptedByAll(n) ==
    \A f \in {"hidden", "type", "name", "ext"} : ~Rejects(f, EntryOf(n))

\* the filters, of which r[f] tells whether filter f rejects, tried one
\* after the other in order o and stopping at the first that rejects, let
\* the entry through
PassesIn(o, r) ==
    ~\E i \in 1..4 : r[o[i]] /\ \A j \in 1..(i - 1) : ~r[o[j]]

\* what each filter says of the node
Rejections(n) ==
    [f \in {"hidden", "type", "name", "ext"} |-> Rejects(f, EntryOf(n))]

\* C9: on a completed walk the printed lines are exactly the readable
\* entries within the depth bound that every active filter accepts, each
\* once; an entry any filter rejects is never printed; and, for the entry
\* the loop body ran on last, trying the filters in any order gives the
\* outcome the run gave.
C9_PrintedExactlyAccepted ==
    /\ NoDuplicates(stdout) /\ NoDuplicates(yielded)
    /\ \A n \in Printed : n \in Yielded /\ AcceptedByAll(n)
    /\ Completed => Printed = {n \in Nodes : Visible(n) /\ AcceptedByAll(n)}
    /\ yielded # <<>> =>
          LET n == yielded[Len(yielded)].node
          IN  \A r \in {Rejections(n)} : \A o \in FilterOrders :
                  PassesIn(o, r) <=> (n \in Printed)

\* a completed run under --name and --ext that printed an entry and
\* rejected another
C9_Witness ==
    /\ Completed /\ args.name.some /\ args.ext.some
    /\ Printed # {}
    /\ \E n \in Yielded : verdict[n] \in {"hidden", "type", "name", "ext"}

----------------------------------------------------------------------------
(* C10 *)

HasDotAncestor(n) == \E a \in Ancestors(n) : a # 0 /\ StartsWithDot(a)

\* C10: the hidden filter never prunes: with --hidden not given, an entry
\* below a directory whose name starts with "." is printed when its own
\* name does not start with "." and it passes the other filters; and two
\* entries of the same name and type fare alike wherever they lie.
C10_HiddenDoesNotPrune ==
    /\ (Completed /\ ~args.hidden) =>
          \A n \in Nodes :
              (/\ Visible(n) /\ HasDotAncestor(n) /\ ~StartsWithDot(n)
               /\ ~type_skip(EntryOf(n)) /\ ~name_skip(EntryOf(n))
               /\ ~ext_skip(EntryOf(n)))
              => n \in Printed
    /\ \A n, m \in Yielded :
          (BaseName(n) = BaseName(m) /\ fs[n].kind = fs[m].kind)
              => verdict[n] = verdict[m]

\* a completed run without --hidden that skipped a directory whose name
\* starts with "." and printed an entry below it
C10_Witness ==
    /\ Completed /\ ~args.hidden
    /\ \E n \in Printed :
          /\ HasDotAncestor(n)
          /\ \E a \in Ancestors(n) : verdict[a] = "hidden"

====
